---------------------------- MODULE Spec2Model ----------------------------
(***************************************************************************)
(* Model of the medical assistant's orchestration core: the conversation   *)
(* memory window (agents/memory.py), the capability gate                   *)
(* (services/guard_service.py) and MedicalAgent.query                      *)
(* (agents/medical_agent.py), driven by the UI sessions that share the one *)
(* cached agent (main.py).                                                 *)
(*                                                                         *)
(* Python text is modelled as a sequence of one-character strings, so that *)
(* lower(), strip(), slicing and substring containment are computed.       *)
(* The hosted model, the LangChain executor and the vision model are       *)
(* oracles: their outcomes are inputs drawn from small sets.               *)
(***************************************************************************)
EXTENDS Integers, Sequences, FiniteSets, TLC

VARIABLES
    max_history,           \* ConversationMemory.max_history (configuration)
    enable_guard,          \* MedicalAgent.enable_guard (configuration)
    conversation_history,  \* ConversationMemory.conversation_history
    uploaded_images,       \* ImageHandlerService.uploaded_images, in insertion order
    pending_image,         \* ImageHandlerService.pending_image
    pending_filename,      \* ImageHandlerService.pending_filename
    latest_stored,         \* the image given to the latest store_image since clear_all
    session_state,         \* st.session_state: uploaded_image, image_filename, messages
    result,                \* the QueryResult returned by the last query call
    last,                  \* record of the last query call: what it called, in order
    pc,                    \* per session: position inside query / add_exchange
    loc                    \* per session: the locals of the running query

vars == << max_history, enable_guard, conversation_history, uploaded_images,
           pending_image, pending_filename, latest_stored, session_state, result, last,
           pc, loc >>

-----------------------------------------------------------------------------
(* Bounds of the model *)

\* largest configured max_history explored
MaxTurns == 3

\* largest n passed to get_recent_context
MaxN == 3

\* messages a run of raising add_exchange calls may leave above the cap
MaxOverflow == 1

\* tool calls the reasoning model may ask for beyond the iteration limit
MaxPlanOver == 1

\* queries each concurrent session issues
MaxSessionQueries == 1

-----------------------------------------------------------------------------
(* Python text *)

UpperLetters == <<"A","B","C","D","E","F","G","H","I","J","K","L","M",
                  "N","O","P","Q","R","S","T","U","V","W","X","Y","Z">>
LowerLetters == <<"a","b","c","d","e","f","g","h","i","j","k","l","m",
                  "n","o","p","q","r","s","t","u","v","w","x","y","z">>
Whitespace == {" ", "\n", "\t", "\r"}

\* str.lower(), one character
LowerChar(c) ==
    IF \E i \in DOMAIN UpperLetters : UpperLetters[i] = c
    THEN LowerLetters[CHOOSE i \in DOMAIN UpperLetters : UpperLetters[i] = c]
    ELSE c

\* str.upper(), one character
UpperChar(c) ==
    IF \E i \in DOMAIN LowerLetters : LowerLetters[i] = c
    THEN UpperLetters[CHOOSE i \in DOMAIN LowerLetters : LowerLetters[i] = c]
    ELSE c

lower(s) == [i \in DOMAIN s |-> LowerChar(s[i])]
upper(s) == [i \in DOMAIN s |-> UpperChar(s[i])]

\* kw in s
Contains(s, kw) ==
    \E i \in 0..(Len(s) - Len(kw)) : SubSeq(s, i + 1, i + Len(kw)) = kw

\* s.startswith(p)
startswith(s, p) == Len(s) >= Len(p) /\ SubSeq(s, 1, Len(p)) = p

\* s.strip()
strip(s) ==
    LET keep == {i \in DOMAIN s : s[i] \notin Whitespace}
    IN  IF keep = {} THEN << >>
        ELSE SubSeq(s, CHOOSE i \in keep : \A j \in keep : i <= j,
                       CHOOSE i \in keep : \A j \in keep : i >= j)

\* s.split(sep, 1)[1] for a one-character sep that occurs in s
AfterFirst(s, sep) ==
    LET k == CHOOSE i \in DOMAIN s : s[i] = sep /\ \A j \in 1..(i - 1) : s[j] # sep
    IN  SubSeq(s, k + 1, Len(s))

\* the slice that cuts nothing
PrefixWhole(s, k) == s

\* s[:k] for k >= 0
Prefix(s, k) == SubSeq(s, 1, IF k < Len(s) THEN k ELSE Len(s))

\* s[-k:] for k >= 0; Python reads s[-0:] as s[0:], the whole sequence
LastSlice(s, k) ==
    IF k = 0 \/ k >= Len(s) THEN s ELSE SubSeq(s, Len(s) - k + 1, Len(s))

\* str(n) for n >= 0
RECURSIVE str_int(_)
str_int(n) ==
    LET digit == <<"0","1","2","3","4","5","6","7","8","9">>[(n % 10) + 1]
    IN  IF n < 10 THEN <<digit>> ELSE Append(str_int(n \div 10), digit)

\* "\n".join(parts)
RECURSIVE JoinNewline(_)
JoinNewline(parts) ==
    IF parts = << >> THEN << >>
    ELSE IF Len(parts) = 1 THEN parts[1]
    ELSE parts[1] \o <<"\n">> \o JoinNewline(Tail(parts))

\* Python values the oracles may hand back: a str, or something that is not one
Str(s) == [type |-> "str", v |-> s]
NoneValue == [type |-> "NoneType", v |-> << >>]

-----------------------------------------------------------------------------
(* Text constants of the program *)

medical_keywords ==
    { <<"s","y","m","p","t","o","m">>,
      <<"d","i","s","e","a","s","e">>,
      <<"t","r","e","a","t","m","e","n","t">>,
      <<"d","i","a","g","n","o","s","i","s">>,
      <<"m","e","d","i","c","a","l">>,
      <<"h","e","a","l","t","h">>,
      <<"p","a","t","i","e","n","t">>,
      <<"d","o","c","t","o","r">>,
      <<"h","o","s","p","i","t","a","l">>,
      <<"c","l","i","n","i","c">>,
      <<"m","e","d","i","c","a","t","i","o","n">>,
      <<"d","r","u","g">>,
      <<"p","a","i","n">>,
      <<"f","e","v","e","r">>,
      <<"i","n","f","e","c","t","i","o","n">>,
      <<"c","a","n","c","e","r">>,
      <<"d","i","a","b","e","t","e","s">>,
      <<"s","u","r","g","e","r","y">>,
      <<"p","r","e","s","c","r","i","p","t","i","o","n">>,
      <<"t","h","e","r","a","p","y">>,
      <<"c","l","i","n","i","c","a","l">>,
      <<"p","h","a","r","m","a","c","e","u","t","i","c","a","l">>,
      <<"r","a","d","i","o","l","o","g","y">>,
      <<"x","-","r","a","y">>,
      <<"m","r","i">>,
      <<"c","t"," ","s","c","a","n">>,
      <<"b","l","o","o","d">>,
      <<"t","e","s","t">>,
      <<"l","a","b","o","r","a","t","o","r","y">>,
      <<"a","n","a","t","o","m","y">>,
      <<"p","a","t","h","o","l","o","g","y">>,
      <<"c","a","r","d","i","o","l","o","g","y">>,
      <<"n","e","u","r","o","l","o","g","y">>,
      <<"o","n","c","o","l","o","g","y">> }

medical_verbs ==
    { <<"a","n","a","l","y","z","e">>,
      <<"d","i","a","g","n","o","s","i","s">>,
      <<"e","x","a","m","i","n","e">>,
      <<"a","s","s","e","s","s">>,
      <<"e","v","a","l","u","a","t","e">>,
      <<"c","h","e","c","k">>,
      <<"l","o","o","k"," ","a","t">>,
      <<"r","e","v","i","e","w">>,
      <<"i","n","t","e","r","p","r","e","t">> }

ReasonKeywords ==
    <<"M","e","d","i","c","a","l"," ","k","e","y","w","o","r","d","s"," ","d","e","t","e","c",
      "t","e","d">>

ReasonContext ==
    <<"M","e","d","i","c","a","l"," ","c","o","n","t","e","x","t"," ","d","e","t","e","c","t",
      "e","d">>

ReasonLLM ==
    <<"L","L","M"," ","v","a","l","i","d","a","t","e","d"," ","a","s"," ","m","e","d","i","c",
      "a","l">>

ReasonNotMedical ==
    <<"N","o","t"," ","m","e","d","i","c","a","l">>

ReasonInconclusive ==
    <<"V","a","l","i","d","a","t","i","o","n"," ","i","n","c","o","n","c","l","u","s","i","v",
      "e"," ","-"," ","a","l","l","o","w","i","n","g">>

YES ==
    <<"Y","E","S">>

RejectionHead ==
    <<"I"," ","a","p","o","l","o","g","i","z","e",","," ","b","u","t"," ","I","'","m"," ","a",
      " ","s","p","e","c","i","a","l","i","z","e","d"," ","m","e","d","i","c","a","l"," ","A",
      "I"," ","a","s","s","i","s","t","a","n","t",".","\n","\n","R","e","a","s","o","n",":",
      " ">>

RejectionTail ==
    <<"\n","\n","I"," ","c","a","n"," ","h","e","l","p"," ","w","i","t","h",":","\n","M","e",
      "d","i","c","a","l"," ","c","o","n","d","i","t","i","o","n","s"," ","a","n","d"," ","s",
      "y","m","p","t","o","m","s","\n","T","r","e","a","t","m","e","n","t"," ","o","p","t","i",
      "o","n","s"," ","a","n","d"," ","m","e","d","i","c","a","t","i","o","n","s","\n","M","e",
      "d","i","c","a","l"," ","i","m","a","g","e"," ","a","n","a","l","y","s","i","s","\n","C",
      "l","i","n","i","c","a","l"," ","g","u","i","d","e","l","i","n","e","s","\n","H","e","a",
      "l","t","h"," ","c","a","l","c","u","l","a","t","i","o","n","s","\n","P","l","e","a","s",
      "e"," ","a","s","k"," ","a"," ","m","e","d","i","c","a","l"," ","o","r"," ","h","e","a",
      "l","t","h","c","a","r","e"," ","q","u","e","s","t","i","o","n","!">>

ErrorHead ==
    <<"E","r","r","o","r"," ","p","r","o","c","e","s","s","i","n","g"," ","q","u","e","r","y",
      ":"," ">>

NoRecentConversation ==
    <<"N","o"," ","r","e","c","e","n","t"," ","c","o","n","v","e","r","s","a","t","i","o","n",
      ".">>

ContextHeader ==
    <<"R","E","C","E","N","T"," ","C","O","N","V","E","R","S","A","T","I","O","N"," ","C","O",
      "N","T","E","X","T",":","\n">>

UserLabel ==
    <<"U","s","e","r",":"," ">>

AssistantLabel ==
    <<"\n","A","s","s","i","s","t","a","n","t",":"," ">>

Ellipsis ==
    <<".",".",".","\n">>

ValidationErrorText ==
    <<"1"," ","v","a","l","i","d","a","t","i","o","n"," ","e","r","r","o","r"," ","f","o","r",
      " ","M","e","s","s","a","g","e","\n","c","o","n","t","e","n","t","\n"," "," ","I","n",
      "p","u","t"," ","s","h","o","u","l","d"," ","b","e"," ","a"," ","v","a","l","i","d"," ",
      "s","t","r","i","n","g">>
-----------------------------------------------------------------------------
(* Program constants *)

\* get_recent_context: assistant_msg.content[:150]
PreviewLen == 150

\* MedicalAgent.query: self.memory.get_recent_context(n=3)
ContextTurns == 3

USER == "user"
ASSISTANT == "assistant"

\* MedicalAgent.tools
ToolNames == {"search_medical_knowledge", "search_web_medical",
              "analyze_medical_image", "calculate_medical_metric"}

EmptyDict == [k \in {} |-> << >>]

-----------------------------------------------------------------------------
(* Inputs: user text and oracle outcomes *)

Q_Fever ==
    <<"F","e","v","e","r","?">>

Q_Check ==
    <<"C","h","e","c","k"," ","i","t">>

Q_Hi ==
    <<"H","i">>

ReplyYes ==
    <<" ","y","e","s"," ","-"," ","h","e","a","l","t","h"," ">>

ReplyNo ==
    <<"N","O"," ","-"," ","w","e","a","t","h","e","r">>

ReplyMaybe ==
    <<"M","a","y","b","e">>

AnswerText ==
    <<"R","e","s","t",".">>

TimeoutText ==
    <<"t","i","m","e","o","u","t">>

Questions == {Q_Fever, Q_Check, Q_Hi}

\* an oracle call either raises or returns a value
Raise(text) == [kind |-> "raise", value |-> Str(text)]
Return(value) == [kind |-> "return", value |-> value]

\* LLMService.generate_text as the guard sees it
GuardModelOutcomes ==
    {Raise(TimeoutText)} \cup {Return(Str(r)) : r \in {ReplyYes, ReplyNo, ReplyMaybe}}

\* the oracle that is not consulted
NotCalled == [kind |-> "not_called", value |-> NoneValue]

\* the tools one executor run invokes, in order (intermediate_steps)
ToolRuns ==
    { << >>,
      <<"calculate_medical_metric", "analyze_medical_image", "calculate_medical_metric">> }

\* AgentExecutor.invoke: raises after some tool calls, or returns an output,
\* which is a str or is not
ExecutorOutcomes ==
    { [kind |-> "raise", steps |-> <<"search_medical_knowledge">>,
       value |-> Str(TimeoutText)],
      [kind |-> "return", steps |-> << >>, value |-> NoneValue] }
    \cup [kind : {"return"}, steps : ToolRuns, value : {Str(AnswerText)}]

NotInvoked == [kind |-> "not_invoked", steps |-> << >>, value |-> NoneValue]

\* settings.max_iterations, handed to the AgentExecutor
max_iterations == 15

\* the output of an executor that was stopped at the iteration limit
StoppedText ==
    <<"A","g","e","n","t"," ","s","t","o","p","p","e","d"," ","d","u","e"," ","t","o"," ","i",
      "t","e","r","a","t","i","o","n"," ","l","i","m","i","t"," ","o","r"," ","t","i","m","e",
      " ","l","i","m","i","t",".">>

Repeat(x, k) == [i \in 1..k |-> x]

\* what the reasoning model would do if it were never stopped: the calls it
\* asks for, then an error, an output that is no text, or its final answer
ReasoningOutcomes ==
    { [kind |-> "raise", steps |-> <<"search_medical_knowledge">>,
       value |-> Str(TimeoutText)],
      [kind |-> "return", steps |-> << >>, value |-> NoneValue] }
    \cup [kind : {"return"},
          steps : ToolRuns
                  \cup { Repeat("search_web_medical", max_iterations - 1),
                         Repeat("calculate_medical_metric", max_iterations + MaxPlanOver) },
          value : {Str(AnswerText)}]

\* an executor that runs every call the reasoning model asks for
agent_executor_invoke_unbounded(r) == r

\* AgentExecutor(max_iterations=...).invoke: one tool call per iteration; the
\* final answer takes one more iteration, and at the limit the run is stopped
agent_executor_invoke(r) ==
    IF Len(r.steps) >= max_iterations
    THEN [kind |-> "return", steps |-> Prefix(r.steps, max_iterations),
          value |-> Str(StoppedText)]
    ELSE r

Images == {"img1", "img2"}
FileNames == {"a.png", "b.png"}
NoImage == "None"

-----------------------------------------------------------------------------
(* core/models.py *)

\* Message(**kwargs): content must be a str; keyword arguments that name no
\* field are dropped, fields not given take their defaults
MessageValid(kwargs) == kwargs.content.type = "str"

Message(kwargs) ==
    [role |-> kwargs.role,
     content |-> kwargs.content.v,
     tool_used |-> IF "tool_used" \in DOMAIN kwargs THEN kwargs.tool_used ELSE << >>]

\* QueryResult(**kwargs), same rules
QueryResult(kwargs) ==
    [response |-> kwargs.response,
     success |-> kwargs.success,
     rejected |-> IF "rejected" \in DOMAIN kwargs THEN kwargs.rejected ELSE FALSE,
     rejected_reason |-> IF "rejected_reason" \in DOMAIN kwargs
                         THEN Str(kwargs.rejected_reason) ELSE NoneValue,
     tools_used |-> IF "tools_used" \in DOMAIN kwargs THEN kwargs.tools_used ELSE << >>,
     tool_call_counts |-> IF "tool_call_counts" \in DOMAIN kwargs
                          THEN kwargs.tool_call_counts ELSE EmptyDict,
     metadata |-> IF "metadata" \in DOMAIN kwargs THEN kwargs.metadata ELSE EmptyDict]

-----------------------------------------------------------------------------
(* agents/memory.py: ConversationMemory *)

\* add_exchange, "Trim if exceeds max"
Trim(history) ==
    IF Len(history) > max_history * 2
    THEN LastSlice(history, max_history * 2)
    ELSE history

\* add_exchange(user_query, assistant_response, tools_used) on the sequence
\* `history`: the sequence it leaves and whether it raised. The user message is
\* appended before the assistant message is constructed; a constructor that
\* raises leaves what was appended so far.
add_exchange(history, user_query, assistant_response, tools_used) ==
    LET user_kwargs == [role |-> USER, content |-> user_query]
        assistant_kwargs == [role |-> ASSISTANT, content |-> assistant_response,
                             tools_used |-> tools_used]
    IN  IF ~MessageValid(user_kwargs)
        THEN [history |-> history, raised |-> TRUE]
        ELSE LET h1 == Append(history, Message(user_kwargs))
             IN  IF ~MessageValid(assistant_kwargs)
                 THEN [history |-> h1, raised |-> TRUE]
                 ELSE [history |-> Trim(Append(h1, Message(assistant_kwargs))),
                       raised |-> FALSE]

\* get_recent_context: the (user_msg, assistant_msg) pairs its loop renders
context_pairs(history, n) ==
    LET recent_messages == LastSlice(history, n * 2)
    IN  [k \in 1..(Len(recent_messages) \div 2) |->
            << recent_messages[2 * k - 1], recent_messages[2 * k] >>]

\* get_recent_context(n)
get_recent_context(history, n) ==
    IF history = << >> THEN NoRecentConversation
    ELSE LET pairs == context_pairs(history, n)
             part(k) == UserLabel \o pairs[k][1].content \o AssistantLabel
                        \o Prefix(pairs[k][2].content, PreviewLen) \o Ellipsis
         IN  JoinNewline(<<ContextHeader>> \o [k \in DOMAIN pairs |-> part(k)])

\* the attributes of a Message: its declared fields
MessageFields == {"role", "content", "timestamp", "tool_used", "metadata"}

\* export_history(): the list it returns, one dict per message, or the
\* AttributeError of reading an attribute that Message does not have; the
\* timestamp and the metadata are left out of the dicts
export_history(history) ==
    LET read == {"role", "content", "timestamp", "tools_used", "metadata"}
    IN  IF history # << >> /\ read \ MessageFields # {}
        THEN [kind |-> "raise", missing |-> read \ MessageFields]
        ELSE [kind |-> "return",
              value |-> [i \in DOMAIN history |->
                           [role |-> history[i].role, content |-> history[i].content,
                            tools_used |-> history[i].tool_used]]]

\* get_summary(): the number of turns and the tools its text lists after
\* "Tools used: "; the text shows "None" when it lists no tool
get_summary(history) ==
    LET total_turns == Len(history) \div 2
        recorded(msg) == IF "tools_used" \in MessageFields /\ msg.tool_used # << >>
                         THEN {msg.tool_used[j] : j \in DOMAIN msg.tool_used}
                         ELSE {}
        tools_used == UNION {recorded(history[i]) :
                               i \in {j \in DOMAIN history : history[j].role = ASSISTANT}}
    IN  IF history = << >>
        THEN [text |-> <<"N","o"," ","c","o","n","v","e","r","s","a","t","i","o","n"," ","h","i","s","t","o","r","y">>,
              turns |-> 0, tools |-> {}, none |-> FALSE]
        ELSE [text |-> <<"T","u","r","n","s",":"," ">> \o str_int(total_turns)
                          \o <<","," ","T","o","o","l","s"," ","u","s","e","d",":"," ">>,
              turns |-> total_turns, tools |-> tools_used, none |-> tools_used = {}]

-----------------------------------------------------------------------------
(* services/guard_service.py: GuardService *)

\* is_medical_query whose except block rejects instead of allowing
is_medical_query_fail_closed(query, model) ==
    LET query_lower == lower(query)
    IN  IF \E kw \in medical_keywords : Contains(query_lower, kw)
        THEN [valid |-> TRUE, reason |-> ReasonKeywords, model_called |-> FALSE]
        ELSE IF \E verb \in medical_verbs : Contains(query_lower, verb)
        THEN [valid |-> TRUE, reason |-> ReasonContext, model_called |-> FALSE]
        ELSE IF model.kind = "raise"
        THEN [valid |-> FALSE, reason |-> ReasonInconclusive, model_called |-> TRUE]
        ELSE LET response == strip(model.value.v)
             IN  IF startswith(upper(response), YES)
                 THEN [valid |-> TRUE, reason |-> ReasonLLM, model_called |-> TRUE]
                 ELSE [valid |-> FALSE,
                       reason |-> IF Contains(response, <<"-">>)
                                  THEN strip(AfterFirst(response, "-"))
                                  ELSE ReasonNotMedical,
                       model_called |-> TRUE]

\* the hosted model asked before the keyword and verb layers are looked at
is_medical_query_model_first(query, model) ==
    LET query_lower == lower(query)
    IN  IF model.kind = "return" /\ startswith(upper(strip(model.value.v)), YES)
        THEN [valid |-> TRUE, reason |-> ReasonLLM, model_called |-> TRUE]
        ELSE IF \E kw \in medical_keywords : Contains(query_lower, kw)
        THEN [valid |-> TRUE, reason |-> ReasonKeywords, model_called |-> TRUE]
        ELSE IF \E verb \in medical_verbs : Contains(query_lower, verb)
        THEN [valid |-> TRUE, reason |-> ReasonContext, model_called |-> TRUE]
        ELSE IF model.kind = "raise"
        THEN [valid |-> TRUE, reason |-> ReasonInconclusive, model_called |-> TRUE]
        ELSE [valid |-> FALSE, reason |-> ReasonNotMedical, model_called |-> TRUE]

\* the layers matching the query as typed, without lower-casing it
is_medical_query_case_sensitive(query, model) ==
    IF \E kw \in medical_keywords : Contains(query, kw)
    THEN [valid |-> TRUE, reason |-> ReasonKeywords, model_called |-> FALSE]
    ELSE IF \E verb \in medical_verbs : Contains(query, verb)
    THEN [valid |-> TRUE, reason |-> ReasonContext, model_called |-> FALSE]
    ELSE IF model.kind = "raise"
    THEN [valid |-> TRUE, reason |-> ReasonInconclusive, model_called |-> TRUE]
    ELSE LET response == strip(model.value.v)
         IN  IF startswith(upper(response), YES)
             THEN [valid |-> TRUE, reason |-> ReasonLLM, model_called |-> TRUE]
             ELSE [valid |-> FALSE, reason |-> ReasonNotMedical, model_called |-> TRUE]

\* is_medical_query(query), given what the hosted model would do if called
is_medical_query(query, model) ==
    LET query_lower == lower(query)
    IN  IF \E kw \in medical_keywords : Contains(query_lower, kw)
        THEN [valid |-> TRUE, reason |-> ReasonKeywords, model_called |-> FALSE]
        ELSE IF \E verb \in medical_verbs : Contains(query_lower, verb)
        THEN [valid |-> TRUE, reason |-> ReasonContext, model_called |-> FALSE]
        ELSE IF model.kind = "raise"
        THEN [valid |-> TRUE, reason |-> ReasonInconclusive, model_called |-> TRUE]
        ELSE LET response == strip(model.value.v)
             IN  IF startswith(upper(response), YES)
                 THEN [valid |-> TRUE, reason |-> ReasonLLM, model_called |-> TRUE]
                 ELSE [valid |-> FALSE,
                       reason |-> IF Contains(response, <<"-">>)
                                  THEN strip(AfterFirst(response, "-"))
                                  ELSE ReasonNotMedical,
                       model_called |-> TRUE]

get_rejection_message(reason) == RejectionHead \o reason \o RejectionTail

-----------------------------------------------------------------------------
(* services/image_handler.py: ImageHandlerService *)

has_pending_image == pending_image # NoImage

\* list(self.uploaded_images.keys())
uploaded_keys == [i \in DOMAIN uploaded_images |-> uploaded_images[i].filename]

\* the dict after uploaded_images[filename] = {...}: a key already present
\* keeps its place, a new key goes last
dict_set(images, filename, image) ==
    LET entry == [filename |-> filename, image |-> image,
                  metadata |-> [filename |-> filename, size |-> image]]
    IN  IF \E i \in DOMAIN images : images[i].filename = filename
        THEN [i \in DOMAIN images |->
                IF images[i].filename = filename THEN entry ELSE images[i]]
        ELSE Append(images, entry)

\* a get_pending_image that returns the pending image and leaves it pending
get_pending_image_keeps(p_img, p_name) ==
    [img |-> p_img, filename |-> IF p_img # NoImage THEN p_name ELSE NoImage,
     pending_image |-> p_img, pending_filename |-> p_name]

\* get_pending_image(): the pair it returns (NoImage when it returns None)
\* and what it leaves pending: it clears the pending image when it returns one
get_pending_image(p_img, p_name) ==
    IF p_img # NoImage
    THEN [img |-> p_img, filename |-> p_name,
          pending_image |-> NoImage, pending_filename |-> NoImage]
    ELSE [img |-> NoImage, filename |-> NoImage,
          pending_image |-> p_img, pending_filename |-> p_name]

\* a get_uploaded_image that finds nothing
get_uploaded_image_none(images) == NoImage

\* get_uploaded_image(filename=None): the image of the last key, or None
get_uploaded_image(images) ==
    IF images = << >> THEN NoImage ELSE images[Len(images)].image

-----------------------------------------------------------------------------
(* tools/image_analysis.py: ImageAnalysisTool.execute *)

\* the image execute() analyses (methods 1 to 3) and what it leaves pending
image_tool_execute(images, p_img, p_name) ==
    LET image_data == get_pending_image(p_img, p_name)
        img2 == IF image_data.img # NoImage THEN image_data.img
                ELSE get_uploaded_image(images)
        filename2 == IF image_data.img # NoImage THEN image_data.filename
                     ELSE IF img2 # NoImage THEN images[Len(images)].filename
                     ELSE NoImage
    IN  [img |-> img2, filename |-> filename2,
         pending_image |-> image_data.pending_image,
         pending_filename |-> image_data.pending_filename]

\* the tool calls of one executor run, in order, on the image handler
RECURSIVE RunTools(_, _, _, _)
RunTools(steps, images, p_img, p_name) ==
    IF steps = << >>
    THEN [pending_image |-> p_img, pending_filename |-> p_name, analysed |-> << >>]
    ELSE IF Head(steps) = "analyze_medical_image"
    THEN LET x == image_tool_execute(images, p_img, p_name)
             rest == RunTools(Tail(steps), images, x.pending_image, x.pending_filename)
         IN  [rest EXCEPT !.analysed = <<[img |-> x.img, filename |-> x.filename]>> \o @]
    ELSE RunTools(Tail(steps), images, p_img, p_name)

-----------------------------------------------------------------------------
(* agents/medical_agent.py: MedicalAgent *)

\* _get_image_context(): the fields its text is formatted from
_get_image_context ==
    IF has_pending_image
    THEN IF uploaded_keys # << >>
         THEN [status |-> "Image available",
               file |-> uploaded_keys[Len(uploaded_keys)],
               size |-> uploaded_images[Len(uploaded_images)].metadata.size]
         ELSE [status |-> "Image available (filename unknown)",
               file |-> NoImage, size |-> NoImage]
    ELSE [status |-> "No image uploaded", file |-> NoImage, size |-> NoImage]

\* _initialize_session_state
NoSession == [uploaded_image |-> NoImage, image_filename |-> NoImage, messages |-> << >>]

\* the query of the Analyze button
quick_query ==
    <<"P","r","o","v","i","d","e"," ","a"," ","d","e","t","a","i","l","e","d"," ","r","a","d",
      "i","o","l","o","g","i","c","a","l"," ","a","n","a","l","y","s","i","s"," ","o","f"," ",
      "t","h","i","s"," ","m","e","d","i","c","a","l"," ","i","m","a","g","e",","," ","i","d",
      "e","n","t","i","f","y","i","n","g"," ","a","n","y"," ","a","b","n","o","r","m","a","l",
      "i","t","i","e","s",","," ","f","r","a","c","t","u","r","e","s",","," ","o","r"," ","n",
      "o","t","e","w","o","r","t","h","y"," ","f","e","a","t","u","r","e","s">>

\* is_medical_query over the questions and hosted-model outcomes that are drawn
is_medical_query_table ==
    [q \in Questions \cup {quick_query}, m \in GuardModelOutcomes \cup {NotCalled} |->
        is_medical_query(q, m)]

\* query, "Guard validation": the guard's verdict, when the guard is consulted
GuardPhase(question, skip_guard, model) ==
    IF enable_guard /\ ~skip_guard
    THEN LET g == is_medical_query_table[question, model]
         IN  [checked |-> TRUE, valid |-> g.valid, reason |-> g.reason,
              model_called |-> g.model_called,
              model_raised |-> g.model_called /\ model.kind = "raise"]
    ELSE [checked |-> FALSE, valid |-> TRUE, reason |-> << >>,
          model_called |-> FALSE, model_raised |-> FALSE]

\* the early return taken also when the validation was inconclusive
rejected_by_guard_strict(g) == g.checked /\ (~g.valid \/ g.model_raised)

\* the early return never taken
rejected_by_guard_never(g) == FALSE

\* the early return taken also when the guard was not consulted
rejected_by_guard_unasked(g) == ~g.checked \/ ~g.valid

\* query, "if not is_valid": the early return
rejected_by_guard(g) == g.checked /\ ~g.valid

\* tool_usage: tool name -> number of intermediate steps that used it
tool_usage_of(steps) ==
    [t \in {steps[i] : i \in DOMAIN steps} |->
        Cardinality({i \in DOMAIN steps : steps[i] = t})]

\* list(tool_usage.keys()): the tools in order of first use
RECURSIVE tools_used_of(_)
tools_used_of(steps) ==
    IF steps = << >> THEN << >>
    ELSE LET before == tools_used_of(SubSeq(steps, 1, Len(steps) - 1))
             t == steps[Len(steps)]
         IN  IF \E i \in DOMAIN before : before[i] = t THEN before
             ELSE Append(before, t)

\* what an add_exchange call that raised did to the sequence: whether the
\* messages stored before the call are still its prefix, and what follows them
FailedAdd(before, after) ==
    [raised |-> TRUE,
     prefix_kept |-> Len(after) >= Len(before) /\ SubSeq(after, 1, Len(before)) = before,
     left_behind |-> SubSeq(after, Len(before) + 1, Len(after))]

NoFailedAdd == [raised |-> FALSE, prefix_kept |-> TRUE, left_behind |-> << >>]

\* query, "Get conversation context": what the executor is invoked with
executor_input(history, question) ==
    [input |-> question,
     image_context |-> _get_image_context,
     conversation_context |-> get_recent_context(history, ContextTurns)]

\* the placeholders of MEDICAL_REACT_PROMPT, which PromptTemplate.from_template
\* takes as the template's input variables
prompt_input_variables ==
    {"conversation_context", "tools", "tool_names", "input", "agent_scratchpad"}

\* the part of the executor's input that the formatted prompt carries: the
\* template is formatted with the values of its own placeholders
prompt_values(history, question) ==
    LET given == executor_input(history, question)
    IN  [v \in DOMAIN given \cap prompt_input_variables |-> given[v]]

\* query, the except block: the error is saved to memory and returned
\* a rejection that is written to the conversation memory
GuardReturnRemembers(history, question, g) ==
    LET message == get_rejection_message(g.reason)
    IN  [history |-> add_exchange(history, Str(question), Str(message), << >>).history,
         result |-> QueryResult([response |-> message, success |-> FALSE,
                                 rejected |-> TRUE, rejection_reason |-> g.reason])]

\* query, the return inside "if not is_valid": the memory is not touched
GuardReturn(history, question, g) ==
    [history |-> history,
     result |-> QueryResult([response |-> get_rejection_message(g.reason),
                             success |-> FALSE, rejected |-> TRUE,
                             rejection_reason |-> g.reason])]

ExceptBlock(history, question, e) ==
    LET error_message == ErrorHead \o e
        saved == add_exchange(history, Str(question), Str(error_message), << >>)
    IN  [history |-> saved.history,
         result |-> QueryResult([response |-> error_message, success |-> FALSE,
                                 rejected |-> FALSE, metadata |-> [error |-> e]])]

\* query, the try block followed by the except block when it raises
TryBlock(history, question, exec) ==
    IF exec.kind = "raise"
    THEN ExceptBlock(history, question, exec.value.v)
            @@ [failed_add |-> NoFailedAdd]
    ELSE LET tool_usage == tool_usage_of(exec.steps)
             response_text == exec.value
             tools_used == tools_used_of(exec.steps)
             saved == add_exchange(history, Str(question), response_text, tools_used)
         IN  IF saved.raised
             THEN ExceptBlock(saved.history, question, ValidationErrorText)
                     @@ [failed_add |-> FailedAdd(history, saved.history)]
             ELSE [history |-> saved.history,
                   result |-> QueryResult([response |-> response_text.v,
                                           success |-> TRUE, rejected |-> FALSE,
                                           tools_used |-> tools_used,
                                           tool_call_counts |-> tool_usage]),
                   failed_add |-> NoFailedAdd]

-----------------------------------------------------------------------------
(* What the last call did *)

NoResult == QueryResult([response |-> << >>, success |-> FALSE])

NoGuard == [checked |-> FALSE, valid |-> TRUE, reason |-> << >>,
            model_called |-> FALSE, model_raised |-> FALSE]

Call(op) == [op |-> op, question |-> << >>, skip_guard |-> FALSE, guard |-> NoGuard,
             events |-> << >>, exec_kind |-> "none", len_before |-> 0,
             failed_add |-> NoFailedAdd, analysed |-> << >>, model |-> NotCalled,
             observation |-> [kind |-> "none"]]

GuardEvents(g) ==
    IF ~g.checked THEN << >>
    ELSE <<"guard.is_medical_query">>
         \o (IF g.model_called THEN <<"llm.generate_text">> ELSE << >>)
         \o <<IF g.valid THEN "guard.valid" ELSE "guard.invalid">>

ExecutorEvents(exec) ==
    <<"agent_executor.invoke">> \o exec.steps
    \o <<IF exec.kind = "raise" THEN "agent_executor.raise" ELSE "agent_executor.return">>

Sessions == {1, 2}
Idle == [s \in Sessions |-> "idle"]
NoLocals == [s \in Sessions |->
                [question |-> << >>, response |-> NoneValue, phase |-> "none",
                 steps |-> << >>, error |-> << >>, slice |-> << >>, done |-> 0]]

-----------------------------------------------------------------------------
(* Operations, one call at a time *)

\* the configuration is set at construction and never reassigned
ConfigUnchanged == UNCHANGED << max_history, enable_guard >>

\* no session is inside a query while calls are made one at a time
SessionsUnchanged == UNCHANGED << pc, loc >>

\* MedicalAgent.query(question, skip_guard)
Query(question, skip_guard, model, exec) ==
    LET g == GuardPhase(question, skip_guard, model)
    IN  IF rejected_by_guard(g)
        THEN /\ conversation_history' = GuardReturn(conversation_history, question, g).history
             /\ result' = GuardReturn(conversation_history, question, g).result
             /\ last' = [Call("query") EXCEPT !.question = question,
                            !.skip_guard = skip_guard, !.guard = g,
                            !.events = GuardEvents(g),
                            !.len_before = Len(conversation_history)]
             /\ UNCHANGED << uploaded_images, latest_stored,
                             pending_image, pending_filename >>
        ELSE LET tools == RunTools(exec.steps, uploaded_images,
                                   pending_image, pending_filename)
                 done == TryBlock(conversation_history, question, exec)
             IN  /\ conversation_history' = done.history
                 /\ result' = done.result
                 /\ pending_image' = tools.pending_image
                 /\ pending_filename' = tools.pending_filename
                 /\ last' = [Call("query") EXCEPT !.question = question,
                                !.skip_guard = skip_guard, !.guard = g,
                                !.events = GuardEvents(g) \o ExecutorEvents(exec),
                                !.exec_kind = exec.kind,
                                !.len_before = Len(conversation_history),
                                !.failed_add = done.failed_add,
                                !.analysed = tools.analysed]
                 /\ UNCHANGED << uploaded_images, latest_stored >>

\* MedicalAgent.clear_conversation()
ClearConversation ==
    /\ conversation_history' = << >>
    /\ result' = NoResult
    /\ last' = Call("clear_conversation")
    /\ UNCHANGED << uploaded_images, latest_stored, session_state, pending_image,
                    pending_filename >>
    /\ ConfigUnchanged
    /\ SessionsUnchanged

\* ImageHandlerService.store_image(image, filename)
StoreImage(image, filename) ==
    /\ uploaded_images' = dict_set(uploaded_images, filename, image)
    /\ pending_image' = image
    /\ pending_filename' = filename
    /\ latest_stored' = image
    /\ result' = NoResult
    /\ last' = Call("store_image")
    /\ UNCHANGED conversation_history
    /\ ConfigUnchanged
    /\ SessionsUnchanged

\* ImageHandlerService.clear_all()
ClearAll ==
    /\ uploaded_images' = << >>
    /\ pending_image' = NoImage
    /\ pending_filename' = NoImage
    /\ latest_stored' = NoImage
    /\ result' = NoResult
    /\ last' = Call("clear_all")
    /\ UNCHANGED conversation_history
    /\ ConfigUnchanged
    /\ SessionsUnchanged

Init ==
    /\ max_history \in 1..MaxTurns
    /\ enable_guard = TRUE
    /\ conversation_history = << >>
    /\ uploaded_images = << >>
    /\ pending_image = NoImage
    /\ pending_filename = NoImage
    /\ latest_stored = NoImage
    /\ session_state = NoSession
    /\ result = NoResult
    /\ last = Call("none")
    /\ pc = Idle
    /\ loc = NoLocals

\* the hosted model answers only a guard that reaches its third layer
GuardModelFor(question, skip_guard) ==
    IF GuardPhase(question, skip_guard, Raise(TimeoutText)).model_called
    THEN GuardModelOutcomes ELSE {NotCalled}

\* the executor runs only for a query that passes the guard
ExecutorFor(question, skip_guard, model) ==
    IF rejected_by_guard(GuardPhase(question, skip_guard, model))
    THEN {NotInvoked} ELSE ExecutorOutcomes

QueryCall ==
    /\ \E question \in Questions, skip_guard \in BOOLEAN :
          \E model \in GuardModelFor(question, skip_guard) :
             \E exec \in ExecutorFor(question, skip_guard, model) :
                Query(question, skip_guard, model, exec)
    /\ UNCHANGED session_state
    /\ ConfigUnchanged
    /\ SessionsUnchanged

Next ==
    \/ QueryCall
    \/ ClearConversation

Spec == Init /\ [][Next]_vars

-----------------------------------------------------------------------------
(* Two UI sessions on the one cached agent (main.py, st.cache_resource):     *)
(* each session's script runs query in its own thread, and the statements of *)
(* add_exchange of the two calls interleave.                                 *)

AnswerText2 ==
    <<"S","l","e","e","p",".">>

\* what each session types, and what the executor answers it
SessionQuestion(s) == IF s = 1 THEN Q_Fever ELSE Q_Check
SessionAnswer(s) == IF s = 1 THEN AnswerText ELSE AnswerText2

SessionOutcomes(s) ==
    { [kind |-> "raise", steps |-> << >>, value |-> Str(TimeoutText)],
      [kind |-> "return", steps |-> << >>, value |-> Str(SessionAnswer(s))] }

\* query up to the call of add_exchange: the guard, then the executor
Begin(s, question, skip_guard, model, exec) ==
    /\ pc[s] = "idle"
    /\ loc[s].done < MaxSessionQueries
    /\ LET g == GuardPhase(question, skip_guard, model)
       IN  IF rejected_by_guard(g)
           THEN /\ result' = QueryResult([response |-> get_rejection_message(g.reason),
                                          success |-> FALSE, rejected |-> TRUE,
                                          rejection_reason |-> g.reason])
                /\ loc' = [loc EXCEPT ![s].done = @ + 1]
                /\ UNCHANGED << pc, pending_image, pending_filename >>
           ELSE LET tools == RunTools(exec.steps, uploaded_images,
                                      pending_image, pending_filename)
                    raised == exec.kind = "raise"
                IN  /\ pending_image' = tools.pending_image
                    /\ pending_filename' = tools.pending_filename
                    /\ loc' = [loc EXCEPT
                                 ![s].question = question,
                                 ![s].phase = IF raised THEN "except" ELSE "try",
                                 ![s].steps = IF raised THEN << >> ELSE exec.steps,
                                 ![s].error = IF raised THEN exec.value.v ELSE << >>,
                                 ![s].response = IF raised
                                                 THEN Str(ErrorHead \o exec.value.v)
                                                 ELSE exec.value]
                    /\ pc' = [pc EXCEPT ![s] = "append_user"]
                    /\ UNCHANGED result
    /\ UNCHANGED << conversation_history, uploaded_images, latest_stored, session_state, last >>
    /\ ConfigUnchanged

\* add_exchange: self.conversation_history.append(user_msg)
AppendUser(s) ==
    /\ pc[s] = "append_user"
    /\ conversation_history' =
          Append(conversation_history,
                 Message([role |-> USER, content |-> Str(loc[s].question)]))
    /\ pc' = [pc EXCEPT ![s] = "append_assistant"]
    /\ UNCHANGED << uploaded_images, latest_stored, session_state, pending_image,
                    pending_filename, result, last, loc >>
    /\ ConfigUnchanged

\* add_exchange: assistant_msg = Message(...); self.conversation_history.append(it);
\* a Message that cannot be constructed raises into query's except block, which
\* calls add_exchange again with the error message
AppendAssistant(s) ==
    /\ pc[s] = "append_assistant"
    /\ LET kwargs == [role |-> ASSISTANT, content |-> loc[s].response,
                      tools_used |-> tools_used_of(loc[s].steps)]
       IN  IF MessageValid(kwargs)
           THEN /\ conversation_history' = Append(conversation_history, Message(kwargs))
                /\ pc' = [pc EXCEPT ![s] = "trim_check"]
                /\ UNCHANGED loc
           ELSE /\ loc' = [loc EXCEPT ![s].phase = "except",
                                      ![s].error = ValidationErrorText,
                                      ![s].response = Str(ErrorHead \o ValidationErrorText)]
                /\ pc' = [pc EXCEPT ![s] = "append_user"]
                /\ UNCHANGED conversation_history
    /\ UNCHANGED << uploaded_images, latest_stored, session_state, pending_image,
                    pending_filename, result, last >>
    /\ ConfigUnchanged

\* add_exchange: if len(...) > max * 2, evaluate the slice
TrimCheck(s) ==
    /\ pc[s] = "trim_check"
    /\ IF Len(conversation_history) > max_history * 2
       THEN /\ loc' = [loc EXCEPT ![s].slice =
                          LastSlice(conversation_history, max_history * 2)]
            /\ pc' = [pc EXCEPT ![s] = "trim_store"]
       ELSE /\ pc' = [pc EXCEPT ![s] = "return"]
            /\ UNCHANGED loc
    /\ UNCHANGED << conversation_history, uploaded_images, latest_stored, session_state,
                    pending_image,
                    pending_filename, result, last >>
    /\ ConfigUnchanged

\* add_exchange: self.conversation_history = <the slice>
TrimStore(s) ==
    /\ pc[s] = "trim_store"
    /\ conversation_history' = loc[s].slice
    /\ loc' = [loc EXCEPT ![s].slice = << >>]
    /\ pc' = [pc EXCEPT ![s] = "return"]
    /\ UNCHANGED << uploaded_images, latest_stored, session_state, pending_image,
                    pending_filename, result, last >>
    /\ ConfigUnchanged

\* query: return QueryResult(...)
ReturnResult(s) ==
    /\ pc[s] = "return"
    /\ result' = IF loc[s].phase = "try"
                 THEN QueryResult([response |-> loc[s].response.v, success |-> TRUE,
                                   rejected |-> FALSE,
                                   tools_used |-> tools_used_of(loc[s].steps),
                                   tool_call_counts |-> tool_usage_of(loc[s].steps)])
                 ELSE QueryResult([response |-> loc[s].response.v, success |-> FALSE,
                                   rejected |-> FALSE,
                                   metadata |-> [error |-> loc[s].error]])
    /\ loc' = [loc EXCEPT ![s] = [NoLocals[s] EXCEPT !.done = loc[s].done + 1]]
    /\ pc' = [pc EXCEPT ![s] = "idle"]
    /\ UNCHANGED << conversation_history, uploaded_images, latest_stored, session_state,
                    pending_image,
                    pending_filename, last >>
    /\ ConfigUnchanged

BeginCall(s) ==
    \E exec \in SessionOutcomes(s) :
        Begin(s, SessionQuestion(s), FALSE, NotCalled, exec)

NextConcurrent ==
    \E s \in Sessions :
        \/ BeginCall(s)
        \/ AppendUser(s)
        \/ AppendAssistant(s)
        \/ TrimCheck(s)
        \/ TrimStore(s)
        \/ ReturnResult(s)

SpecConcurrent == Init /\ [][NextConcurrent]_vars

\* the hosted model is down: every call the guard makes to it raises
QueryCallOutage ==
    /\ \E question \in Questions, skip_guard \in BOOLEAN :
          \E model \in GuardModelFor(question, skip_guard)
                          \cap {NotCalled, Raise(TimeoutText)} :
             \E exec \in ExecutorFor(question, skip_guard, model) :
                Query(question, skip_guard, model, exec)
    /\ UNCHANGED session_state
    /\ ConfigUnchanged
    /\ SessionsUnchanged

NextOutage ==
    \/ QueryCallOutage
    \/ ClearConversation

SpecOutage == Init /\ [][NextOutage]_vars


-----------------------------------------------------------------------------
(* ConversationMemory called directly: add_exchange and clear_history, one  *)
(* call at a time, with any response value a caller may hand over.          *)

MemoryQueries == {Q_Fever, Q_Hi}
MemoryResponses == {Str(AnswerText), NoneValue}

\* ConversationMemory.add_exchange(user_query, assistant_response)
AddExchange(user_query, assistant_response) ==
    LET saved == add_exchange(conversation_history, Str(user_query),
                              assistant_response, << >>)
    IN  /\ Len(saved.history) <= 2 * max_history + MaxOverflow
        /\ conversation_history' = saved.history
        /\ result' = NoResult
        /\ last' = [Call("add_exchange") EXCEPT !.question = user_query,
                       !.len_before = Len(conversation_history),
                       !.failed_add = IF saved.raised
                                      THEN FailedAdd(conversation_history,
                                                     saved.history)
                                      ELSE NoFailedAdd]
        /\ UNCHANGED << uploaded_images, latest_stored, session_state, pending_image,
                        pending_filename >>

AddExchangeCall ==
    /\ \E user_query \in MemoryQueries, assistant_response \in MemoryResponses :
          AddExchange(user_query, assistant_response)
    /\ ConfigUnchanged
    /\ SessionsUnchanged

\* ConversationMemory.clear_history()
ClearHistory ==
    /\ conversation_history' = << >>
    /\ result' = NoResult
    /\ last' = Call("clear_history")
    /\ UNCHANGED << uploaded_images, latest_stored, session_state, pending_image,
                    pending_filename >>
    /\ ConfigUnchanged
    /\ SessionsUnchanged

NextMemory ==
    \/ AddExchangeCall
    \/ ClearHistory

SpecMemory == Init /\ [][NextMemory]_vars

-----------------------------------------------------------------------------
(* GuardService.is_medical_query called on its own, over queries put        *)
(* together from a few words and over the replies of the hosted model.      *)

\* words to build queries from: no keyword, halves of the verb "look at", a
\* keyword in capitals and a verb
GuardWords ==
    { <<"H","i"," ">>,
      <<"w","e","a","t","h","e","r"," ">>,
      <<"L","o","o">>,
      <<"k"," ","A","t">>,
      <<"F","E","V","E","R">>,
      <<"c","h","e","c","k">> }

\* the queries of at most two words, the empty query among them
GuardQueries ==
    {<< >>} \cup GuardWords \cup {a \o b : a \in GuardWords, b \in GuardWords}

\* LLMService.generate_text as the guard sees it, with more replies
GuardReplies ==
    GuardModelOutcomes
    \cup { Return(Str(r)) :
              r \in { <<"Y","E","S">>,
                       <<"\n"," ","y","e","s","t","e","r","d","a","y">>,
                       <<"N","o">>,
                       <<" ","\n">>,
                       <<"N","O",","," ","Y","E","S">>,
                       << >> } }

\* is_medical_query over the queries and replies that are drawn here
is_medical_query_answers ==
    [q \in GuardQueries, m \in GuardReplies \cup {NotCalled} |->
        is_medical_query(q, m)]

\* GuardService.is_medical_query(query)
IsMedicalQuery(query, model) ==
    LET g == is_medical_query_answers[query, model]
        seen == [checked |-> TRUE, valid |-> g.valid, reason |-> g.reason,
                 model_called |-> g.model_called,
                 model_raised |-> g.model_called /\ model.kind = "raise"]
    IN  /\ last' = [Call("is_medical_query") EXCEPT !.question = query,
                       !.guard = seen, !.events = GuardEvents(seen),
                       !.model = model]
        /\ result' = NoResult
        /\ UNCHANGED << conversation_history, uploaded_images, latest_stored, session_state,
                        pending_image, pending_filename >>

\* the hosted model answers only a call that reaches the third layer
IsMedicalQueryCall ==
    /\ \E query \in GuardQueries :
          \E model \in (IF is_medical_query_answers[query, Raise(TimeoutText)].model_called
                        THEN GuardReplies ELSE {NotCalled}) :
             IsMedicalQuery(query, model)
    /\ ConfigUnchanged
    /\ SessionsUnchanged

SpecGuard == Init /\ [][IsMedicalQueryCall]_vars

-----------------------------------------------------------------------------
(* One UI session with uploads: images are stored and cleared between the   *)
(* queries, the guard is enabled or not, and the executor runs the calls     *)
(* the reasoning model asks for up to its iteration limit.                   *)

\* the agent as constructed with a window of some length and a guard setting
InitWith(turns, guards) ==
    /\ max_history \in turns
    /\ enable_guard \in guards
    /\ conversation_history = << >>
    /\ uploaded_images = << >>
    /\ pending_image = NoImage
    /\ pending_filename = NoImage
    /\ latest_stored = NoImage
    /\ session_state = NoSession
    /\ result = NoResult
    /\ last = Call("none")
    /\ pc = Idle
    /\ loc = NoLocals

\* either guard setting and the shortest window
StoreImageCall ==
    /\ \E image \in Images, filename \in FileNames : StoreImage(image, filename)
    /\ UNCHANGED session_state

QueryCallUpload ==
    /\ \E question \in Questions, skip_guard \in BOOLEAN :
          \E model \in GuardModelFor(question, skip_guard) :
             \E exec \in (IF ExecutorFor(question, skip_guard, model) = {NotInvoked}
                          THEN {NotInvoked}
                          ELSE {agent_executor_invoke(r) : r \in ReasoningOutcomes}) :
                Query(question, skip_guard, model, exec)
    /\ UNCHANGED session_state
    /\ ConfigUnchanged
    /\ SessionsUnchanged

NextUpload ==
    \/ QueryCallUpload
    \/ StoreImageCall
    \/ ClearAll /\ UNCHANGED session_state

SpecUpload == InitWith({1}, BOOLEAN) /\ [][NextUpload]_vars

-----------------------------------------------------------------------------
(* ConversationMemory with a window of two turns, fed texts longer than the  *)
(* preview that get_recent_context cuts to.                                  *)

\* a text two characters longer than the preview
LongText == Repeat("a", PreviewLen) \o <<"b", "c">>

AddExchangePreviewCall ==
    /\ \E user_query \in {Q_Hi, LongText},
          assistant_response \in {Str(AnswerText), Str(LongText), NoneValue} :
             AddExchange(user_query, assistant_response)
    /\ ConfigUnchanged
    /\ SessionsUnchanged

NextPreview ==
    \/ AddExchangePreviewCall
    \/ ClearHistory

SpecPreview == InitWith({2}, {TRUE}) /\ [][NextPreview]_vars

-----------------------------------------------------------------------------
(* tools/: what each tool's execute returns to the agent loop, given what its *)
(* capability provider does. A text that execute builds from a long template  *)
(* is kept as its first line, with the values formatted into it in `data`.    *)

\* a str returned by execute, and an exception leaving a block
Observation(text, data) == [kind |-> "return", text |-> text, data |-> data]
Raised(type, text) == [kind |-> "raise", type |-> type, text |-> text]

\* f"{x:.2f}" for x given in hundredths
format_2f(hundredths) ==
    str_int(hundredths \div 100) \o <<".">> \o str_int((hundredths \div 10) % 10)
    \o str_int(hundredths % 10)

\* f"{x:.1f}" for x given in tenths
format_1f(tenths) == str_int(tenths \div 10) \o <<".">> \o str_int(tenths % 10)

\* str(e) of the exceptions Python raises inside the tools
PythonErrors ==
    [ format_none |->
        <<"u","n","s","u","p","p","o","r","t","e","d"," ","f","o","r","m","a","t"," ","s","t","r",
          "i","n","g"," ","p","a","s","s","e","d"," ","t","o"," ","N","o","n","e","T","y","p","e",
          ".","_","_","f","o","r","m","a","t","_","_">>,
      str_get |->
        <<"'","s","t","r","'"," ","o","b","j","e","c","t"," ","h","a","s"," ","n","o"," ","a","t",
          "t","r","i","b","u","t","e"," ","'","g","e","t","'">>,
      json_none |->
        <<"t","h","e"," ","J","S","O","N"," ","o","b","j","e","c","t"," ","m","u","s","t"," ","b",
          "e"," ","s","t","r",","," ","b","y","t","e","s"," ","o","r"," ","b","y","t","e","a","r",
          "r","a","y",","," ","n","o","t"," ","N","o","n","e","T","y","p","e">>,
      list_get |->
        <<"'","l","i","s","t","'"," ","o","b","j","e","c","t"," ","h","a","s"," ","n","o"," ","a",
          "t","t","r","i","b","u","t","e"," ","'","g","e","t","'">>,
      str_div |->
        <<"u","n","s","u","p","p","o","r","t","e","d"," ","o","p","e","r","a","n","d"," ","t","y",
          "p","e","(","s",")"," ","f","o","r"," ","/",":"," ","'","s","t","r","'"," ","a","n","d",
          " ","'","i","n","t","'">> ]

SearchFailedHead ==
    <<"S","e","a","r","c","h"," ","f","a","i","l","e","d",":"," ">>

SearchErrorHead ==
    <<"S","e","a","r","c","h"," ","e","r","r","o","r",":"," ">>

WebErrorHead ==
    <<"W","e","b"," ","s","e","a","r","c","h"," ","e","r","r","o","r",":"," ">>

InvalidJsonText ==
    <<"I","n","v","a","l","i","d"," ","J","S","O","N"," ","f","o","r","m","a","t"," ","f","o",
      "r"," ","p","a","r","a","m","e","t","e","r","s">>

CalculationFailedHead ==
    <<"C","a","l","c","u","l","a","t","i","o","n"," ","f","a","i","l","e","d",":"," ">>

AnalysisFailedHead ==
    <<"A","n","a","l","y","s","i","s"," ","f","a","i","l","e","d",":"," ">>

\* Python values the tools look into
Py(type, v) == [type |-> type, v |-> v]

\* d.get(key, default)
dict_get(d, key, default) == IF key \in DOMAIN d THEN d[key] ELSE default

\* not x
falsy(x) ==
    \/ x.type = "NoneType"
    \/ x.type \in {"int", "float"} /\ x.v = 0
    \/ x.type \in {"str", "list"} /\ x.v = << >>

-----------------------------------------------------------------------------
(* services/knowledge_base.py and tools/knowledge_search.py *)

Match(score, text, source) ==
    Py("dict", [score |-> score, metadata |-> [text |-> Str(text), source |-> Str(source)]])

\* a match of index.query with its score
Scored(score) ==
    Py("dict", [score |-> score,
                metadata |-> [text |-> Str(AnswerText), source |-> Str(TimeoutText)]])

\* index.query (after embed_model.encode): it raises, or returns its matches;
\* a score is a number, given in hundredths, or None
IndexOutcomes ==
    { Raised("TimeoutError", TimeoutText),
      Return(Py("dict", [matches |-> << >>])),
      Return(Py("dict", [namespace |-> Str(<< >>)])),
      Return(Py("dict", [matches |-> << Scored(Py("float", 87)) >>])),
      Return(Py("dict", [matches |-> << Scored(Py("float", 87)), Scored(NoneValue) >>])) }

\* KnowledgeBaseService.search(query)
knowledge_service_search(index) ==
    IF index.kind = "raise"
    THEN Raised("ToolExecutionError", SearchFailedHead \o index.text)
    ELSE LET results == index.value.v
             matches == results["matches"]
         IN  IF "matches" \notin DOMAIN results
             THEN Return(<< >>)
             ELSE IF matches = << >>
             THEN Return(<< >>)
             ELSE Return([i \in DOMAIN matches |->
                            [score |-> dict_get(matches[i].v, "score", Py("float", 0)),
                             text |-> dict_get(matches[i].v.metadata, "text", Str(<< >>)),
                             source |-> dict_get(matches[i].v.metadata, "source",
                                                 Str(<<"u","n","k","n","o","w","n">>))]])

\* KnowledgeSearchTool.execute, the try block
knowledge_search_try(index) ==
    LET found == knowledge_service_search(index)
    IN  IF found.kind = "raise" THEN found
        ELSE LET results == found.value
             IN  IF results = << >>
                 THEN Observation(
                         <<"N","o"," ","r","e","l","e","v","a","n","t"," ","i","n","f","o","r","m","a","t","i","o",
                           "n"," ","f","o","u","n","d"," ","i","n"," ","k","n","o","w","l","e","d","g","e"," ","b",
                           "a","s","e">>, EmptyDict)
                 ELSE IF \E i \in DOMAIN results : results[i].score.type # "float"
                 THEN Raised("TypeError", PythonErrors.format_none)
                 ELSE Observation(<<"F","o","u","n","d"," ">> \o str_int(Len(results))
                                     \o <<" ","r","e","s","u","l","t","s","\n","\n">>,
                                  [i \in DOMAIN results |->
                                     [relevance |-> format_2f(results[i].score.v),
                                      source |-> results[i].source.v,
                                      text |-> results[i].text.v]])

\* execute without its except block
knowledge_search_execute_bare(index) == knowledge_search_try(index)

\* KnowledgeSearchTool.execute(query)
knowledge_search_execute(index) ==
    LET done == knowledge_search_try(index)
    IN  IF done.kind = "raise"
        THEN Observation(SearchErrorHead \o done.text, EmptyDict)
        ELSE done

-----------------------------------------------------------------------------
(* tools/web_search.py *)

\* results["organic_results"][:5]
web_results_shown == 5

\* GoogleSearch(...).get_dict(): it raises, or returns a dict
SerpOutcomes ==
    { Raised("ConnectionError", TimeoutText),
      Return(Py("dict", [error |-> Str(TimeoutText)])),
      Return(Py("dict", [organic_results |-> << >>])),
      Return(Py("dict", [organic_results |->
                     << Py("dict", [title |-> Str(AnswerText), snippet |-> Str(AnswerText),
                              link |-> Str(TimeoutText)]),
                        Py("dict", [link |-> Str(TimeoutText)]) >>])),
      Return(Py("dict", [organic_results |-> << Str(AnswerText) >>])) }

\* WebSearchTool.execute(query)
web_search_execute(serp) ==
    LET \* the try block
        done ==
            IF serp.kind = "raise" THEN serp
            ELSE LET results == serp.value.v
                 IN  IF "organic_results" \notin DOMAIN results
                     THEN Observation(
                             <<"N","o"," ","w","e","b"," ","r","e","s","u","l","t","s"," ","f","o","u","n","d">>, EmptyDict)
                     ELSE IF results["organic_results"] = << >>
                     THEN Observation(
                             <<"N","o"," ","w","e","b"," ","r","e","s","u","l","t","s"," ","f","o","u","n","d">>, EmptyDict)
                     ELSE LET shown == Prefix(results["organic_results"], web_results_shown)
                          IN  IF \E i \in DOMAIN shown : shown[i].type # "dict"
                              THEN Raised("AttributeError", PythonErrors.str_get)
                              ELSE Observation(
                                      <<"W","E","B"," ","S","E","A","R","C","H"," ","R","E","S","U","L","T","S",":","\n">>,
                                      [i \in DOMAIN shown |->
                                         [title |-> dict_get(shown[i].v, "title",
                                              Str(<<"N","o"," ","t","i","t","l","e">>)).v,
                                          snippet |-> dict_get(shown[i].v, "snippet",
                                              Str(<<"N","o"," ","d","e","s","c","r","i","p","t","i","o","n">>)).v,
                                          link |-> dict_get(shown[i].v, "link", Str(<< >>)).v]])
    IN  IF done.kind = "raise"
        THEN Observation(WebErrorHead \o done.text, EmptyDict)
        ELSE done

-----------------------------------------------------------------------------
(* tools/medical_calculator.py *)

\* the `calculation_type` argument
CalculationTypes == { <<"b","m","i">>, <<"e","G","F","R">>,
                      <<"C","H","A","D","S","2">> }

\* texts given as `parameters`: JSON documents and one text that is no JSON
JsonTexts ==
    [ bmi |->
        <<"{","\"","w","e","i","g","h","t","_","k","g","\"",":"," ","7","0",","," ","\"","h","e",
          "i","g","h","t","_","m","\"",":"," ","2","}">>,
      obese |->
        <<"{","\"","w","e","i","g","h","t","_","k","g","\"",":"," ","1","2","0",","," ","\"","h",
          "e","i","g","h","t","_","m","\"",":"," ","2","}">>,
      no_height |->
        <<"{","\"","w","e","i","g","h","t","_","k","g","\"",":"," ","7","0","}">>,
      zero_height |->
        <<"{","\"","w","e","i","g","h","t","_","k","g","\"",":"," ","7","0",","," ","\"","h","e",
          "i","g","h","t","_","m","\"",":"," ","0","}">>,
      list |->
        <<"[","7","0",","," ","2","]">>,
      str_weight |->
        <<"{","\"","w","e","i","g","h","t","_","k","g","\"",":"," ","\"","7","0","\"",","," ","\"",
          "h","e","i","g","h","t","_","m","\"",":"," ","2","}">>,
      not_json |->
        <<"w","e","i","g","h","t","=","7","0">> ]

\* the `parameters` argument: the texts, and None
CalculatorParameters ==
    { Str(JsonTexts[k]) : k \in DOMAIN JsonTexts } \cup { NoneValue }

\* json.loads(parameters), for the arguments of CalculatorParameters
json_loads(parameters) ==
    IF parameters.type # "str" THEN Raised("TypeError", PythonErrors.json_none)
    ELSE IF parameters.v = JsonTexts.bmi
    THEN Return(Py("dict", [weight_kg |-> Py("int", 70), height_m |-> Py("int", 2)]))
    ELSE IF parameters.v = JsonTexts.obese
    THEN Return(Py("dict", [weight_kg |-> Py("int", 120), height_m |-> Py("int", 2)]))
    ELSE IF parameters.v = JsonTexts.no_height
    THEN Return(Py("dict", [weight_kg |-> Py("int", 70)]))
    ELSE IF parameters.v = JsonTexts.zero_height
    THEN Return(Py("dict", [weight_kg |-> Py("int", 70), height_m |-> Py("int", 0)]))
    ELSE IF parameters.v = JsonTexts.list
    THEN Return(Py("list", << Py("int", 70), Py("int", 2) >>))
    ELSE IF parameters.v = JsonTexts.str_weight
    THEN Return(Py("dict", [weight_kg |-> Str(<<"7","0">>), height_m |-> Py("int", 2)]))
    ELSE Raised("JSONDecodeError", << >>)

\* _calculate_bmi(params), for a height that is a whole number of metres and a
\* BMI that is a whole number of tenths
_calculate_bmi(params) ==
    IF params.type # "dict" THEN Raised("AttributeError", PythonErrors.list_get)
    ELSE LET weight == dict_get(params.v, "weight_kg", NoneValue)
             height == dict_get(params.v, "height_m", NoneValue)
         IN  IF falsy(weight) \/ falsy(height)
             THEN Observation(
                     <<"B","M","I"," ","r","e","q","u","i","r","e","s"," ","'","w","e","i","g","h","t","_","k",
                       "g","'"," ","a","n","d"," ","'","h","e","i","g","h","t","_","m","'">>, EmptyDict)
             ELSE IF weight.type # "int"
             THEN Raised("TypeError", PythonErrors.str_div)
             ELSE LET squared == height.v * height.v
                      tenths == (weight.v * 10) \div squared
                      category == IF weight.v * 10 < 185 * squared THEN "Underweight"
                                  ELSE IF weight.v < 25 * squared THEN "Normal weight"
                                  ELSE IF weight.v < 30 * squared THEN "Overweight"
                                  ELSE "Obese"
                  IN  Observation(
                          <<"B","M","I"," ","C","A","L","C","U","L","A","T","I","O","N"," ","R","E","S","U","L","T",
                            ":">>,
                                  [bmi |-> format_1f(tenths), category |-> category])

\* MedicalCalculatorTool.execute(calculation_type, parameters)
calculator_execute(calculation_type, parameters) ==
    LET \* the try block
        done ==
            LET params == json_loads(parameters)
            IN  IF params.kind = "raise" THEN params
                ELSE LET calc_type == upper(calculation_type)
                     IN  IF calc_type = <<"B","M","I">> THEN _calculate_bmi(params.value)
                         ELSE IF calc_type = <<"E","G","F","R">> THEN Observation(
                                 <<"e","G","F","R"," ","c","a","l","c","u","l","a","t","i","o","n"," ","c","o","m","i","n",
                                   "g"," ","s","o","o","n">>, EmptyDict)
                         ELSE Observation(<<"C","a","l","c","u","l","a","t","i","o","n"," ","'">>
                                             \o calculation_type \o <<"'"," ","n","o","t"," ","s","u","p","p","o","r","t","e","d">>,
                                         EmptyDict)
    IN  IF done.kind = "raise"
        THEN IF done.type = "JSONDecodeError"
             THEN Observation(InvalidJsonText, EmptyDict)
             ELSE Observation(CalculationFailedHead \o done.text, EmptyDict)
        ELSE done

-----------------------------------------------------------------------------
(* tools/image_analysis.py: the analysis and the except block of execute *)

\* LLMService.analyze_image(prompt, img): it raises, or returns the text
VisionOutcomes == { Raised("ResourceExhausted", TimeoutText), Return(Str(AnswerText)) }

\* ImageAnalysisTool.execute(query) on the image methods 1 to 3 found
image_analysis_execute(found, vision) ==
    LET \* the try block
        done ==
            IF found.img = NoImage THEN Observation(
                    <<"N","o"," ","m","e","d","i","c","a","l"," ","i","m","a","g","e"," ","f","o","u","n","d",
                      "."," ">>, EmptyDict)
            ELSE IF vision.kind = "raise" THEN vision
            ELSE Observation(
                    <<" ","M","E","D","I","C","A","L"," ","I","M","A","G","E"," ","A","N","A","L","Y","S","I",
                      "S"," ","R","E","P","O","R","T">>,
                             [image |-> found.filename, analysis |-> vision.value.v])
    IN  IF done.kind = "raise"
        THEN Observation(AnalysisFailedHead \o done.text, EmptyDict)
        ELSE done

-----------------------------------------------------------------------------
(* The tools called on their own, between uploads *)

ToolCall(op, provider, observation) ==
    /\ last' = [Call(op) EXCEPT !.model = provider, !.observation = observation]
    /\ result' = NoResult
    /\ UNCHANGED << conversation_history, uploaded_images, latest_stored, session_state >>
    /\ ConfigUnchanged
    /\ SessionsUnchanged

SearchKnowledgeExecute ==
    /\ \E index \in IndexOutcomes :
          ToolCall("search_medical_knowledge", index, knowledge_search_execute(index))
    /\ UNCHANGED << pending_image, pending_filename >>

SearchWebExecute ==
    /\ \E serp \in SerpOutcomes :
          ToolCall("search_web_medical", serp, web_search_execute(serp))
    /\ UNCHANGED << pending_image, pending_filename >>

CalculateExecute ==
    /\ \E calculation_type \in CalculationTypes, parameters \in CalculatorParameters :
          ToolCall("calculate_medical_metric",
                   [kind |-> "arguments", calculation_type |-> calculation_type,
                    parameters |-> parameters],
                   calculator_execute(calculation_type, parameters))
    /\ UNCHANGED << pending_image, pending_filename >>

AnalyzeImageExecute ==
    \E vision \in VisionOutcomes :
        LET found == image_tool_execute(uploaded_images, pending_image, pending_filename)
        IN  /\ last' = [Call("analyze_medical_image") EXCEPT
                           !.model = IF found.img = NoImage THEN NotCalled ELSE vision,
                           !.observation = image_analysis_execute(found, vision),
                           !.analysed = <<[img |-> found.img, filename |-> found.filename]>>]
            /\ pending_image' = found.pending_image
            /\ pending_filename' = found.pending_filename
            /\ result' = NoResult
            /\ UNCHANGED << conversation_history, uploaded_images, latest_stored,
                            session_state >>
            /\ ConfigUnchanged
            /\ SessionsUnchanged

\* ImageHandlerService.get_pending_image()
GetPendingImage ==
    LET image_data == get_pending_image(pending_image, pending_filename)
    IN  /\ last' = [Call("get_pending_image") EXCEPT
                       !.analysed = <<[img |-> image_data.img,
                                       filename |-> image_data.filename]>>]
        /\ pending_image' = image_data.pending_image
        /\ pending_filename' = image_data.pending_filename
        /\ result' = NoResult
        /\ UNCHANGED << conversation_history, uploaded_images, latest_stored, session_state >>
        /\ ConfigUnchanged
        /\ SessionsUnchanged

NextTools ==
    \/ GetPendingImage
    \/ SearchKnowledgeExecute
    \/ SearchWebExecute
    \/ CalculateExecute
    \/ AnalyzeImageExecute
    \/ StoreImageCall
    \/ ClearAll /\ UNCHANGED session_state

SpecTools == InitWith({1}, {TRUE}) /\ [][NextTools]_vars

-----------------------------------------------------------------------------
(* ui/streamlit_app.py: one browser session of StreamlitUI *)

\* _process_uploaded_image(uploaded_file), for a file that PIL opens; the
\* uploader is rendered only while the session holds no image
UploadImage(image, filename) ==
    /\ session_state.uploaded_image = NoImage
    /\ StoreImage(image, filename)
    /\ session_state' = [session_state EXCEPT !.uploaded_image = image,
                                               !.image_filename = filename]

\* _send_message(user_message)
SendMessage(user_message) ==
    /\ Len(session_state.messages) < 2 * MaxSessionQueries
    /\ \E model \in GuardModelFor(user_message, FALSE) :
          \E exec \in ExecutorFor(user_message, FALSE, model) :
             Query(user_message, FALSE, model, exec)
    /\ session_state' =
          [session_state EXCEPT !.messages =
              @ \o << [role |-> USER, content |-> user_message],
                      [role |-> ASSISTANT, content |-> result'.response,
                       tools |-> result'.tools_used] >>]
    /\ ConfigUnchanged
    /\ SessionsUnchanged

\* the Clear button, rendered while the session holds an image
ClearImage ==
    /\ session_state.uploaded_image # NoImage
    /\ ClearAll
    /\ session_state' = [session_state EXCEPT !.uploaded_image = NoImage,
                                               !.image_filename = NoImage]

\* the Reset button
Reset ==
    /\ session_state' = NoSession
    /\ conversation_history' = << >>
    /\ uploaded_images' = << >>
    /\ pending_image' = NoImage
    /\ pending_filename' = NoImage
    /\ latest_stored' = NoImage
    /\ result' = NoResult
    /\ last' = Call("reset")
    /\ ConfigUnchanged
    /\ SessionsUnchanged

NextUI ==
    \/ \E image \in Images, filename \in FileNames : UploadImage(image, filename)
    \/ \E user_message \in Questions : SendMessage(user_message)
    \/ session_state.uploaded_image # NoImage /\ SendMessage(quick_query)
    \/ ClearImage
    \/ Reset

SpecUI == InitWith({1}, {TRUE}) /\ [][NextUI]_vars

-----------------------------------------------------------------------------
(* Properties *)

Min(a, b) == IF a <= b THEN a ELSE b

\* the last call was a query that went through this event
Went(event) == \E i \in DOMAIN last.events : last.events[i] = event

ExecutorEventNames == {"agent_executor.invoke"} \cup ToolNames

UserMessage(text) == [role |-> USER, content |-> text, tool_used |-> << >>]
AssistantMessage(text) == [role |-> ASSISTANT, content |-> text, tool_used |-> << >>]

\* C1: after any sequence of add_exchange and clear_history calls on a memory
\* configured with max_history, the stored sequence holds at most
\* 2 * max_history messages.
C1_CapHolds == Len(conversation_history) <= 2 * max_history

\* C2: in every state reached by query and clear_conversation calls, the
\* stored sequence has an even length (or is empty).
C2_EvenLength == Len(conversation_history) % 2 = 0

\* C3: an add_exchange call that raises after appending the user message leaves
\* the sequence as it was before the call, with no lone user message.
C3_NoLoneUserMessage ==
    last.failed_add.raised =>
        /\ last.failed_add.prefix_kept
        /\ last.failed_add.left_behind = << >>

\* the questions with no medical keyword and no medical verb phrase
PlainQuestions ==
    {q \in Questions :
        /\ ~\E kw \in medical_keywords : Contains(lower(q), kw)
        /\ ~\E verb \in medical_verbs : Contains(lower(q), verb)}

\* C4: for a query with no medical keyword and no verb phrase, a hosted-model
\* call that raises makes is_medical_query answer admissible, never a rejection.
C4_GuardFailsOpen ==
    ( /\ last.op = "query"
      /\ last.guard.checked
      /\ last.question \in PlainQuestions
      /\ last.guard.model_raised )
    => /\ last.guard.valid
       /\ last.guard.reason = ReasonInconclusive
       /\ ~result.rejected

\* a guarded query with no keyword or verb whose model call raised
C4_Witness ==
    /\ last.op = "query"
    /\ last.question = Q_Hi
    /\ last.guard.checked
    /\ last.guard.model_raised
    /\ result.success

\* C5: while every hosted-model call of the guard raises, no query returns a
\* rejected result; every query reaches the agent executor.
C5_NoRejectionUnderOutage ==
    last.op = "query" => (~result.rejected /\ Went("agent_executor.invoke"))

\* under the outage, a guarded query that needed the model and ran the executor
C5_Witness ==
    /\ last.op = "query"
    /\ ~last.skip_guard
    /\ Went("llm.generate_text")
    /\ Went("agent_executor.invoke")
    /\ ~result.rejected

\* C6: when the executor raises, the messages stored before the query stay
\* (up to the cap), the question is stored with its error message, the result
\* is a failure that is not a rejection, and the context of a following query
\* shows the failed exchange.
C6_FailureKeepsConversation ==
    [][ (last'.op = "query" /\ last'.exec_kind = "raise") =>
          LET err == ErrorHead \o result'.metadata.error
              all == conversation_history
                        \o << UserMessage(last'.question), AssistantMessage(err) >>
              kept == Min(Len(all), 2 * max_history)
          IN  /\ conversation_history' = SubSeq(all, Len(all) - kept + 1, Len(all))
              /\ result'.response = err
              /\ result'.success = FALSE
              /\ result'.rejected = FALSE
              /\ \A q \in Questions :
                    Contains(executor_input(conversation_history', q).conversation_context,
                             UserLabel \o last'.question \o AssistantLabel
                                \o Prefix(err, PreviewLen) \o Ellipsis)
      ]_vars

\* C7: for every n >= 0, get_recent_context(n) renders exactly the last
\* min(n, stored pairs) pairs, oldest first, each a user message followed by
\* the assistant reply stored right after it.
C7_RecentPairs ==
    \A n \in 0..MaxN :
        LET pairs == context_pairs(conversation_history, n)
            k == Min(n, Len(conversation_history) \div 2)
            size == Len(conversation_history)
        IN  /\ Len(pairs) = k
            /\ \A j \in 1..Min(k, Len(pairs)) :
                  /\ pairs[j] = << conversation_history[size - 2 * (k - j) - 1],
                                   conversation_history[size - 2 * (k - j)] >>
                  /\ pairs[j][1].role = USER
                  /\ pairs[j][2].role = ASSISTANT

\* C8: when the add_exchange of a query makes the sequence exceed
\* 2 * max_history, exactly the oldest user/assistant pair is dropped and the
\* rest is kept in order, ending with the pair just added.
C8_OldestPairDropped ==
    [][ ( /\ last'.op = "query"
          /\ last'.exec_kind # "none"
          /\ Len(conversation_history) + 2 > 2 * max_history )
        => /\ conversation_history[1].role = USER
           /\ conversation_history[2].role = ASSISTANT
           /\ conversation_history' =
                 SubSeq(conversation_history, 3, Len(conversation_history))
                 \o << UserMessage(last'.question), AssistantMessage(result'.response) >>
      ]_vars

\* no session is inside a query
AllIdle == \A s \in Sessions : pc[s] = "idle"

\* the assistant texts a query with this question can store
RepliesTo(question) ==
    {SessionAnswer(s) : s \in {x \in Sessions : SessionQuestion(x) = question}}
    \cup {ErrorHead \o TimeoutText}

\* C9: with two queries running concurrently on the shared agent, the user
\* message of each exchange is directly followed by the assistant message of
\* that exchange.
C9_ExchangeAdjacent ==
    AllIdle =>
        \A i \in DOMAIN conversation_history :
            conversation_history[i].role = USER =>
                /\ i < Len(conversation_history)
                /\ conversation_history[i + 1].role = ASSISTANT
                /\ conversation_history[i + 1].content
                      \in RepliesTo(conversation_history[i].content)

\* C10: with the guard enabled and not skipped, the executor and the tools run
\* only after the guard found the query valid; a rejected query runs neither.
C10_GuardBeforeExecutor ==
    (last.op = "query" /\ enable_guard /\ ~last.skip_guard) =>
        /\ \A i \in DOMAIN last.events :
              last.events[i] \in ExecutorEventNames =>
                  \E j \in 1..(i - 1) : last.events[j] = "guard.valid"
        /\ (result.rejected \/ Went("guard.invalid")) =>
              \A i \in DOMAIN last.events : last.events[i] \notin ExecutorEventNames

\* a guarded query that the hosted model validated and whose executor used tools
C10_Witness ==
    /\ last.op = "query"
    /\ ~last.skip_guard
    /\ Went("llm.generate_text")
    /\ Went("guard.valid")
    /\ Went("calculate_medical_metric")
    /\ result.success

\* C11: every query that the guard does not reject appends exactly one
\* exchange to memory, the question and the response text returned to the
\* caller (the oldest messages leaving when the cap is exceeded).
C11_OneExchangePerQuery ==
    [][ (last'.op = "query" /\ ~result'.rejected) =>
          LET all == conversation_history
                        \o << UserMessage(last'.question),
                              AssistantMessage(result'.response) >>
              kept == Min(Len(all), 2 * max_history)
          IN  conversation_history' = SubSeq(all, Len(all) - kept + 1, Len(all))
      ]_vars

\* the queries whose lower-cased text holds a configured medical keyword
KeywordQueries ==
    {q \in GuardQueries \cup Questions :
        \E kw \in medical_keywords : Contains(lower(q), kw)}

\* the queries whose lower-cased text holds a medical verb phrase
VerbQueries ==
    {q \in GuardQueries \cup Questions :
        \E verb \in medical_verbs : Contains(lower(q), verb)}

\* C12: the guard looks at keywords, then at verb phrases, then asks the hosted
\* model: the model is called only for a query with no keyword and no verb
\* phrase, and at most once; a keyword decides before a verb phrase does.
C12_LayersInOrder ==
    last.op = "is_medical_query" =>
        /\ last.guard.model_called =>
              (last.question \notin KeywordQueries /\ last.question \notin VerbQueries)
        /\ Cardinality({i \in DOMAIN last.events :
                            last.events[i] = "llm.generate_text"}) <= 1
        /\ last.question \in KeywordQueries => last.guard.reason = ReasonKeywords
        /\ last.question \in VerbQueries \ KeywordQueries =>
              last.guard.reason = ReasonContext

\* a query with neither keyword nor verb phrase, for which the model was asked
C12_Witness ==
    /\ last.op = "is_medical_query"
    /\ last.question = <<"H","i"," ","w","e","a","t","h","e","r"," ">>
    /\ last.guard.model_called
    /\ Went("llm.generate_text")

\* C13: is_medical_query rejects a query exactly when it holds no keyword, no
\* verb phrase, and the hosted model returned, without error, a reply that
\* stripped and upper-cased does not start with YES.
C13_RejectsIff ==
    last.op = "is_medical_query" =>
        ( ~last.guard.valid <=>
            /\ last.question \notin KeywordQueries
            /\ last.question \notin VerbQueries
            /\ last.model.kind = "return"
            /\ ~startswith(upper(strip(last.model.value.v)), YES) )

\* a rejection: no keyword, no verb phrase, a reply that only mentions YES
C13_Witness ==
    /\ last.op = "is_medical_query"
    /\ last.question = <<"k"," ","A","t","L","o","o">>
    /\ last.model = Return(Str(<<"N","O",","," ","Y","E","S">>))
    /\ ~last.guard.valid

\* the tool calls the last query made
ToolCalls == Cardinality({i \in DOMAIN last.events : last.events[i] \in ToolNames})

\* the sum of the counts of a tool_call_counts dict
RECURSIVE SumCounts(_)
SumCounts(counts) ==
    IF DOMAIN counts = {} THEN 0
    ELSE LET t == CHOOSE x \in DOMAIN counts : TRUE
         IN  counts[t] + SumCounts([x \in DOMAIN counts \ {t} |-> counts[x]])

C15_ImageContextInPrompt ==
    has_pending_image =>
        \A q \in Questions :
            LET prompt == prompt_values(conversation_history, q)
            IN  /\ "conversation_context" \in DOMAIN prompt
                /\ "image_context" \in DOMAIN prompt
                /\ prompt["image_context"] = _get_image_context

\* C16: in the text of get_recent_context, the text shown after "Assistant:"
\* in every pair is the first 150 characters of the message, at most, followed
\* by "...", the text shown after "User:" is the whole message, and an empty
\* history renders as "No recent conversation.".
C16_PreviewCut ==
    \A n \in 0..MaxN :
        LET text == get_recent_context(conversation_history, n)
            pairs == context_pairs(conversation_history, n)
        IN  /\ conversation_history = << >> => text = NoRecentConversation
            /\ \A j \in DOMAIN pairs :
                  LET user_text == pairs[j][1].content
                      reply == pairs[j][2].content
                      shown == IF Len(reply) <= PreviewLen THEN reply
                               ELSE SubSeq(reply, 1, PreviewLen)
                  IN  /\ Contains(text, UserLabel \o user_text \o AssistantLabel
                                           \o shown \o Ellipsis)
                      /\ Len(reply) > PreviewLen =>
                            ~Contains(text, AssistantLabel
                                               \o SubSeq(reply, 1, PreviewLen + 1))

\* two stored exchanges, the long text as a question and as a reply
C16_Witness ==
    /\ Len(conversation_history) = 4
    /\ conversation_history[1] = UserMessage(LongText)
    /\ conversation_history[2] = AssistantMessage(AnswerText)
    /\ conversation_history[3] = UserMessage(Q_Hi)
    /\ conversation_history[4] = AssistantMessage(LongText)

\* C17: every execution of the image analysis tool analyses the image given to
\* the latest store_image call since the last clear_all, also after a filename
\* was stored again and after an earlier analysis took the pending image.
C17_AnalysesLatestImage ==
    \A k \in DOMAIN last.analysed : last.analysed[k].img = latest_stored

\* C18: a query rejected by the guard leaves the conversation memory and the
\* image handler state (uploaded images, pending image, pending filename) as
\* they were before the call.
C18_RejectionLeavesState ==
    [][(last'.op = "query" /\ result'.rejected) =>
          UNCHANGED << conversation_history, uploaded_images,
                       pending_image, pending_filename >>]_vars

\* a rejected query while an exchange is remembered and an image is pending
C18_Witness ==
    /\ last.op = "query"
    /\ result.rejected
    /\ conversation_history # << >>
    /\ uploaded_images # << >>
    /\ pending_image # NoImage

\* C19: the result of every query call is rejected (success false, rejected
\* true), answered (success true, rejected false) or failed (both false), never
\* success and rejected together, and it is rejected only when the guard is
\* enabled and skip_guard is false.
C19_ThreeShapes ==
    last.op = "query" =>
        /\ << result.success, result.rejected >> \in
              { << FALSE, TRUE >>, << TRUE, FALSE >>, << FALSE, FALSE >> }
        /\ result.rejected => (enable_guard /\ ~last.skip_guard)

\* a query rejected with the guard enabled and not skipped
C19_Witness ==
    /\ last.op = "query"
    /\ enable_guard
    /\ ~last.skip_guard
    /\ result.rejected
    /\ ~result.success

\* C20: every tool's execute returns a text to the agent loop and lets no
\* exception out: when the knowledge search, the web search or the vision
\* model raises, the text is the tool's error text with the exception's
\* message; calculator parameters that are no JSON, no str, or hold no dict
\* or no number give the calculator's error texts.
C20_ToolFailuresAreObservations ==
    last.op \in ToolNames =>
        LET text == last.observation.text
        IN  /\ last.observation.kind = "return"
            /\ (last.op = "search_medical_knowledge" /\ last.model.kind = "raise") =>
                  text = SearchErrorHead \o SearchFailedHead \o last.model.text
            /\ (last.op = "search_web_medical" /\ last.model.kind = "raise") =>
                  text = WebErrorHead \o last.model.text
            /\ (last.op = "analyze_medical_image" /\ last.model.kind = "raise") =>
                  text = AnalysisFailedHead \o last.model.text
            /\ last.op = "calculate_medical_metric" =>
                  /\ last.model.parameters = Str(JsonTexts.not_json) => text = InvalidJsonText
                  /\ last.model.parameters = NoneValue =>
                        startswith(text, CalculationFailedHead)
                  /\ (/\ last.model.parameters \in
                            {Str(JsonTexts.list), Str(JsonTexts.str_weight)}
                      /\ upper(last.model.calculation_type) = <<"B","M","I">>) =>
                        startswith(text, CalculationFailedHead)

\* the vision model raised on a stored image and the tool answered with a text
C20_Witness ==
    /\ last.op = "analyze_medical_image"
    /\ last.model.kind = "raise"
    /\ last.analysed[1].img = latest_stored
    /\ last.observation.kind = "return"
    /\ startswith(last.observation.text, AnalysisFailedHead)

\* C21: export_history succeeds on every stored history and returns one record
\* per stored message, in stored order, with the message's role and content
\* and, for the reply a query has just stored, the tools passed to add_exchange.
C21_ExportHistory ==
    LET exported == export_history(conversation_history)
    IN  /\ exported.kind = "return"
        /\ Len(exported.value) = Len(conversation_history)
        /\ \A i \in DOMAIN conversation_history :
              /\ exported.value[i].role = conversation_history[i].role
              /\ exported.value[i].content = conversation_history[i].content
        /\ (last.op = "query" /\ result.success) =>
              exported.value[Len(conversation_history)].tools_used = result.tools_used

\* C22: get_summary reports half the stored length as the number of turns and
\* lists the tools passed to add_exchange for the exchange a query has just
\* stored; it shows 'None' only when no stored exchange used a tool.
C22_SummaryListsTools ==
    LET summary == get_summary(conversation_history)
        given == {result.tools_used[j] : j \in DOMAIN result.tools_used}
    IN  /\ summary.turns = Len(conversation_history) \div 2
        /\ (last.op = "query" /\ result.success) =>
              /\ given \subseteq summary.tools
              /\ summary.none => given = {}

\* C23: get_pending_image returns the pending image and clears it: after the
\* call has_pending_image is false, a call with nothing pending returns None,
\* and only store_image makes an image pending, so a stored image is returned
\* at most once.
C23_PendingReturnedOnce ==
    [][/\ last'.op = "get_pending_image" =>
             /\ last'.analysed[1].img = pending_image
             /\ pending_image' = NoImage
             /\ pending_filename' = NoImage
       /\ (pending_image' # NoImage /\ last'.op # "store_image") =>
             (pending_image' = pending_image /\ last'.op # "get_pending_image")]_vars

\* get_pending_image has returned the stored image and nothing is pending
C23_Witness ==
    /\ last.op = "get_pending_image"
    /\ last.analysed[1].img = latest_stored
    /\ latest_stored # NoImage
    /\ ~has_pending_image

\* C24: from a store_image until the next clear_all, every execution of the
\* image analysis tool finds an image and does not answer "No medical image
\* found", whatever analyses ran before it.
C24_ImageFoundAfterStore ==
    (last.op = "analyze_medical_image" /\ latest_stored # NoImage) =>
        /\ last.analysed[1].img # NoImage
        /\ ~startswith(last.observation.text,
                       <<"N","o"," ","m","e","d","i","c","a","l"," ","i","m","a","g","e">>)

\* an analysis of an image other than the latest stored one: nothing was
\* pending, the image was taken from the uploads
C24_Witness ==
    /\ last.op = "analyze_medical_image"
    /\ last.model.kind = "return"
    /\ latest_stored # NoImage
    /\ last.analysed[1].img # latest_stored

\* C25: whenever the UI session holds an uploaded image, the image handler
\* has a pending image, so the sidebar does not show "System Error - Please
\* re-upload".
C25_SessionImageIsPending ==
    session_state.uploaded_image # NoImage => has_pending_image

=============================================================================
